---- MODULE Spec2Model ----
(***************************************************************************)
(* Model of the agent-lab repository:                                      *)
(*   - task-api/main.py: the task store (in-memory list `tasks`, the       *)
(*     backing file tasks.json, the create / list / delete handlers);      *)
(*   - family_activity_planner_app.py and pm_career_coach_app.py: the      *)
(*     secret resolver, the provider router and the prompt builders.       *)
(* Spec is the task store under sequential requests; SpecRoute is the      *)
(* provider router of the two assistant applications; SpecBuild applies    *)
(* the prompt builders to form fields; SpecConc interleaves the steps of   *)
(* two requests of the task store.                                         *)
(***************************************************************************)
EXTENDS Integers, Sequences, FiniteSets, TLC

VARIABLES
    tasks,        \* main.py: the module-level list `tasks`
    file,         \* the backing file TASKS_FILE (tasks.json)
    proc,         \* task API process: "init", "serving" or "crashed"
    last,         \* the last request: its handler, inputs, outcome, result
    createdIds,   \* ids returned by the completed create requests, in order
    hydrations,   \* how often line 166 assigned the cache from the file
    extWrites,    \* external modifications of the file so far
    extAfterHydration, \* the file was modified externally after a hydration
    deletes,      \* delete requests so far
    writeErrors,  \* failed writes of the file so far
    app,          \* the assistant application: "planner" or "coach"
    installed,    \* the provider client libraries that are installed
    secrets,      \* st.secrets: the platform secret store, per name
    environ,      \* os.environ: the process environment, per name
    appState,     \* assistant process: "init", "running" or "crashed"
    route,        \* the last call of the provider router and its result
    form,         \* the form fields a prompt builder is applied to
    prompt,       \* the last prompt built, and by which builder
    threads       \* the concurrent requests of the task API, by thread

taskVars == <<tasks, file, proc, last, createdIds, hydrations, extWrites,
              extAfterHydration, deletes, writeErrors>>

routeVars == <<app, installed, secrets, environ, appState, route>>

buildVars == <<form, prompt>>

concVars == <<threads>>

vars == <<tasks, file, proc, last, createdIds, hydrations, extWrites,
          extAfterHydration, deletes, writeErrors,
          app, installed, secrets, environ, appState, route,
          form, prompt, threads>>

(***************************************************************************)
(* Bounds of the model.                                                    *)
(***************************************************************************)
MaxInitLen == 2      \* longest task array found in the file by the process
MaxInitId == 3       \* largest id in such an array
MaxCreates == 2      \* completed create requests per process lifetime
MaxHydrations == 2   \* executions of line 166 per process lifetime
MaxExtWrites == 1    \* external modifications of the file
MaxDelLen == 2       \* longest `ids` list of a delete request
MaxDeletes == 1      \* delete requests per process lifetime
MaxWriteErrors == 1  \* failed writes of the file per process lifetime

Texts == {"a", "b"}  \* task texts of the requests
StoredText == "s"    \* the text of the tasks found in the file
NoSuchId == 99       \* an id no task ever carries in the model

(***************************************************************************)
(* Python exceptions: the classes the code raises or catches, with the     *)
(* built-in class hierarchy that `except` clauses test against.            *)
(***************************************************************************)
NoExc == "none"

ExcParent(c) ==
    CASE c = "JSONDecodeError" -> "ValueError"
      [] c = "UnicodeDecodeError" -> "UnicodeError"
      [] c = "UnicodeError" -> "ValueError"
      [] c = "PermissionError" -> "OSError"
      [] c = "ModuleNotFoundError" -> "ImportError"
      [] c = "ValueError" -> "Exception"
      [] c = "OSError" -> "Exception"
      [] c = "ImportError" -> "Exception"
      [] c = "APIError" -> "Exception"
      [] c = "KeyError" -> "Exception"
      [] OTHER -> "BaseException"

RECURSIVE IsSubclass(_, _)
IsSubclass(c, d) ==
    IF c = d THEN TRUE
    ELSE IF c = "BaseException" THEN FALSE
    ELSE IsSubclass(ExcParent(c), d)

\* `except (A, B):` catches an exception of class c
Catches(classes, c) == \E d \in classes : IsSubclass(c, d)

(***************************************************************************)
(* JSON text.  A file's text is a sequence of tokens (white space and      *)
(* indentation are not tokens); json.dumps produces it and json.loads      *)
(* parses it.                                                              *)
(***************************************************************************)
Tok(k) == [k |-> k, n |-> 0, s |-> ""]
TokNum(n) == [k |-> "num", n |-> n, s |-> ""]
TokStr(s) == [k |-> "str", n |-> 0, s |-> s]

\* json.dumps of one task dict {"id": .., "text": ..}
DumpTask(t) ==
    <<Tok("{"), TokStr("id"), Tok(":"), TokNum(t.id), Tok(","),
      TokStr("text"), Tok(":"), TokStr(t.text), Tok("}")>>

RECURSIVE DumpItems(_)
DumpItems(ts) ==
    IF ts = <<>> THEN <<>>
    ELSE IF Len(ts) = 1 THEN DumpTask(ts[1])
    ELSE DumpTask(ts[1]) \o <<Tok(",")>> \o DumpItems(Tail(ts))

\* the dump of the collection as it was before its last record was added
json_dumps_Stale(ts) ==
    <<Tok("[")>> \o DumpItems(IF ts = <<>> THEN ts ELSE SubSeq(ts, 1, Len(ts) - 1))
                 \o <<Tok("]")>>

\* json.dumps(tasks, indent=2)
json_dumps(ts) == <<Tok("[")>> \o DumpItems(ts) \o <<Tok("]")>>

\* parsed JSON values
JNum(n) == [ty |-> "num", n |-> n, s |-> "", items |-> <<>>]
JStr(s) == [ty |-> "str", n |-> 0, s |-> s, items |-> <<>>]
JArr(xs) == [ty |-> "arr", n |-> 0, s |-> "", items |-> xs]
JObj(ms) == [ty |-> "obj", n |-> 0, s |-> "", items |-> ms]
ParseFail == [ok |-> FALSE, next |-> 0, val |-> JNum(0)]
ParseOk(v, i) == [ok |-> TRUE, next |-> i, val |-> v]

\* a number or a string at position i
ParseScalar(t, i) ==
    IF i > Len(t) THEN ParseFail
    ELSE IF t[i].k = "num" THEN ParseOk(JNum(t[i].n), i + 1)
    ELSE IF t[i].k = "str" THEN ParseOk(JStr(t[i].s), i + 1)
    ELSE ParseFail

RECURSIVE ParseMembers(_, _, _)
\* the members `"key": scalar` of an object, up to its closing brace
ParseMembers(t, i, acc) ==
    IF i + 1 > Len(t) \/ t[i].k # "str" \/ t[i + 1].k # ":" THEN ParseFail
    ELSE LET r == ParseScalar(t, i + 2) IN
         IF ~r.ok \/ r.next > Len(t) THEN ParseFail
         ELSE LET m == [key |-> t[i].s, val |-> r.val] IN
              IF t[r.next].k = "," THEN ParseMembers(t, r.next + 1, Append(acc, m))
              ELSE IF t[r.next].k = "}" THEN ParseOk(JObj(Append(acc, m)), r.next + 1)
              ELSE ParseFail

\* a scalar or an object at position i
ParseItem(t, i) ==
    IF i > Len(t) THEN ParseFail
    ELSE IF t[i].k = "{"
    THEN IF i + 1 <= Len(t) /\ t[i + 1].k = "}"
         THEN ParseOk(JObj(<<>>), i + 2)
         ELSE ParseMembers(t, i + 1, <<>>)
    ELSE ParseScalar(t, i)

RECURSIVE ParseElems(_, _, _)
\* the elements of an array, up to its closing bracket
ParseElems(t, i, acc) ==
    LET r == ParseItem(t, i) IN
    IF ~r.ok \/ r.next > Len(t) THEN ParseFail
    ELSE IF t[r.next].k = "," THEN ParseElems(t, r.next + 1, Append(acc, r.val))
    ELSE IF t[r.next].k = "]" THEN ParseOk(JArr(Append(acc, r.val)), r.next + 1)
    ELSE ParseFail

\* a JSON value at position i: a scalar, an object of scalars, or an array
\* of such (the nesting depth of a task file)
ParseValue(t, i) ==
    IF i > Len(t) THEN ParseFail
    ELSE IF t[i].k = "["
    THEN IF i + 1 <= Len(t) /\ t[i + 1].k = "]"
         THEN ParseOk(JArr(<<>>), i + 2)
         ELSE ParseElems(t, i + 1, <<>>)
    ELSE ParseItem(t, i)

\* json.loads(text): the value, or JSONDecodeError (also on trailing data)
WholeText(r, n) == IF r.ok /\ r.next = n + 1 THEN r ELSE ParseFail
json_loads(t) == WholeText(ParseValue(t, 1), Len(t))

\* d[key] of a parsed object (the last member of that name wins)
RECURSIVE Member(_, _, _)
Member(ms, key, default) ==
    IF ms = <<>> THEN default
    ELSE IF ms[Len(ms)].key = key THEN ms[Len(ms)].val
    ELSE Member(SubSeq(ms, 1, Len(ms) - 1), key, default)

\* the task dicts of a parsed array, as the records the handlers read
DictOf(v) == [id |-> Member(v.items, "id", JNum(0)).n,
              text |-> Member(v.items, "text", JStr("")).s]
ListOf(v) == [i \in 1..Len(v.items) |-> DictOf(v.items[i])]

(***************************************************************************)
(* The backing file.  exists: the path exists; readable: read_text can     *)
(* read it (otherwise OSError); utf8: its bytes decode as UTF-8; text: its *)
(* decoded text.                                                           *)
(***************************************************************************)
FileOf(e, r, u, t) == [exists |-> e, readable |-> r, utf8 |-> u, text |-> t]

FileAbsent == FileOf(FALSE, TRUE, TRUE, <<>>)
FileHolding(ts) == FileOf(TRUE, TRUE, TRUE, json_dumps(ts))

\* TASKS_FILE.read_text(encoding="utf-8")
read_text(f) ==
    IF ~f.readable THEN [exc |-> "PermissionError", text |-> <<>>]
    ELSE IF ~f.utf8 THEN [exc |-> "UnicodeDecodeError", text |-> <<>>]
    ELSE [exc |-> NoExc, text |-> f.text]

\* the exception classes load_tasks_from_file catches
LoadCaught == {"JSONDecodeError", "OSError"}

\* line 152 applied to what json.loads gave: JSONDecodeError, the list, or
\* [] for a value that is not a list
LoadData(p) ==
    IF ~p.ok THEN [exc |-> "JSONDecodeError", val |-> <<>>]
    ELSE IF p.val.ty = "arr" THEN [exc |-> NoExc, val |-> ListOf(p.val)]
    ELSE [exc |-> NoExc, val |-> <<>>]

\* the body of the try block of load_tasks_from_file
LoadTry(f) ==
    IF read_text(f).exc # NoExc
    THEN [exc |-> read_text(f).exc, val |-> <<>>]
    ELSE LoadData(json_loads(read_text(f).text))

\* the except clause of load_tasks_from_file applied to the try block's outcome
LoadExcept(r) ==
    IF r.exc = NoExc THEN r
    ELSE IF Catches(LoadCaught, r.exc) THEN [exc |-> NoExc, val |-> <<>>]
    ELSE [exc |-> r.exc, val |-> <<>>]

load_tasks_from_file(f) ==
    IF ~f.exists THEN [exc |-> NoExc, val |-> <<>>]
    ELSE LoadExcept(LoadTry(f))

\* save_tasks_to_file: the outcomes of write_text.  The write succeeds, or
\* it raises OSError before the file is opened (file untouched) or after it
\* was truncated (file left empty).
save_tasks_to_file(ts, f) ==
    { [exc |-> NoExc,
       file |-> FileOf(TRUE, IF f.exists THEN f.readable ELSE TRUE, TRUE,
                       json_dumps(ts))],
      [exc |-> "OSError", file |-> f],
      [exc |-> "OSError",
       file |-> FileOf(TRUE, IF f.exists THEN f.readable ELSE TRUE, TRUE, <<>>)] }

\* line 166: the assignment of what load_tasks_from_file returned
AssignLoaded(ts, r) ==
    IF r.exc # NoExc
    THEN [exc |-> r.exc, tasks |-> ts, hydrated |-> FALSE]
    ELSE [exc |-> NoExc, tasks |-> r.val, hydrated |-> TRUE]

\* _ensure_tasks_loaded: the cache afterwards, whether line 166 assigned it,
\* and the exception that escaped load_tasks_from_file
ensure_tasks_loaded(ts, f) ==
    IF ts = <<>> /\ f.exists
    THEN AssignLoaded(ts, load_tasks_from_file(f))
    ELSE [exc |-> NoExc, tasks |-> ts, hydrated |-> FALSE]

(***************************************************************************)
(* The handlers' computations.                                             *)
(***************************************************************************)
RECURSIVE MaxIdOf(_)
\* max((t["id"] for t in tasks), default=0)
MaxIdOf(ts) ==
    IF ts = <<>> THEN 0
    ELSE LET m == MaxIdOf(Tail(ts)) IN IF ts[1].id > m THEN ts[1].id ELSE m

\* the id as count + 1 instead of max + 1
NextTaskId_CountPlusOne(ts) == Len(ts) + 1

\* the id as max + 1 of the ids that precede the last task
NextTaskId_SkipLast(ts) ==
    IF ts = <<>> THEN 1 ELSE MaxIdOf(SubSeq(ts, 1, Len(ts) - 1)) + 1

\* add_task line 192
NextTaskId(ts) == MaxIdOf(ts) + 1

\* set(body.ids)
IdSet(ids) == {ids[i] : i \in 1..Len(ids)}

\* a delete that empties the collection whatever ids it was given
KeepNotIn_Clear(ts, ids) == <<>>

RECURSIVE KeepNotIn(_, _)
\* [t for t in tasks if t["id"] not in ids]
KeepNotIn(ts, ids) ==
    IF ts = <<>> THEN <<>>
    ELSE IF ts[1].id \in ids THEN KeepNotIn(Tail(ts), ids)
    ELSE <<ts[1]>> \o KeepNotIn(Tail(ts), ids)

\* the length of the request's list, without set()
DeletedCount_ListLength(ids) == Len(ids)

\* delete_tasks line 213: len(ids)
DeletedCount(ids) == Cardinality(IdSet(ids))

(***************************************************************************)
(* The record of the last request.                                         *)
(***************************************************************************)
NoTask == [id |-> 0, text |-> ""]
NoLast == [op |-> "none", status |-> "none", exc |-> NoExc,
           text |-> "", ids |-> <<>>,
           entry |-> <<>>, pre |-> <<>>, hydrated |-> FALSE,
           task |-> NoTask, list |-> <<>>, count |-> 0]

Raised(l, e) == [l EXCEPT !.status = "raised", !.exc = e]

\* requests whose _ensure_tasks_loaded would read the file stay within the
\* hydration bound
HydrationGuard == (tasks = <<>> /\ file.exists) => hydrations < MaxHydrations

(***************************************************************************)
(* The files the process finds at start, or an external writer leaves.     *)
(***************************************************************************)
TaskRecs == [id : 1..MaxInitId, text : {StoredText}]

RECURSIVE SeqsUpTo(_, _)
SeqsUpTo(S, n) ==
    IF n = 0 THEN {<<>>}
    ELSE LET shorter == SeqsUpTo(S, n - 1) IN
         shorter \cup {Append(q, x) : q \in {r \in shorter : Len(r) = n - 1}, x \in S}

UniqueIds(ts) == \A i, j \in 1..Len(ts) : i # j => ts[i].id # ts[j].id

\* valid stored collections: arrays of task records with unique ids
StoredCollections == {ts \in SeqsUpTo(TaskRecs, MaxInitLen) : UniqueIds(ts)}

FileStates ==
    {FileAbsent}
    \cup {FileHolding(ts) : ts \in StoredCollections}
    \cup { FileOf(TRUE, FALSE, TRUE, json_dumps(<<>>)),       \* unreadable
           FileOf(TRUE, TRUE, FALSE, <<>>),                    \* not UTF-8
           FileOf(TRUE, TRUE, TRUE, <<>>),                     \* empty file
           FileOf(TRUE, TRUE, TRUE, <<Tok("["), Tok("{")>>),   \* truncated JSON
           FileOf(TRUE, TRUE, TRUE, <<Tok("{"), Tok("}")>>),   \* a JSON object
           FileOf(TRUE, TRUE, TRUE, <<TokNum(7)>>) }           \* a JSON number

\* what an external writer leaves: a valid array of at most one task
ExternalFiles == {FileHolding(ts) : ts \in {c \in StoredCollections : Len(c) <= 1}}

(***************************************************************************)
(* Task store: initial state and operations.                               *)
(***************************************************************************)
TaskInit ==
    /\ tasks = <<>>
    /\ file \in FileStates
    /\ proc = "init"
    /\ last = NoLast
    /\ createdIds = <<>>
    /\ hydrations = 0
    /\ extWrites = 0
    /\ extAfterHydration = FALSE
    /\ deletes = 0
    /\ writeErrors = 0

\* `uvicorn main:app`: the module is imported, the cache starts empty
Serve ==
    /\ UNCHANGED <<routeVars, buildVars, concVars>>
    /\ proc = "init"
    /\ proc' = "serving"
    /\ last' = [NoLast EXCEPT !.op = "serve", !.status = "ok"]
    /\ UNCHANGED <<tasks, file, createdIds, hydrations, extWrites, extAfterHydration,
                   deletes, writeErrors>>

\* line 217 with what load_tasks_from_file returned
MainLoaded(r) ==
    IF r.exc # NoExc
    THEN /\ proc' = "crashed"
         /\ last' = Raised([NoLast EXCEPT !.op = "main"], r.exc)
         /\ UNCHANGED tasks
    ELSE /\ proc' = "serving"
         /\ tasks' = r.val
         /\ last' = [NoLast EXCEPT !.op = "main", !.status = "ok", !.pre = r.val]

\* `python main.py`: lines 216-219 fill the cache from the file first
Main ==
    /\ UNCHANGED <<routeVars, buildVars, concVars>>
    /\ proc = "init"
    /\ MainLoaded(load_tasks_from_file(file))
    /\ UNCHANGED <<file, createdIds, hydrations, extWrites, extAfterHydration, deletes,
                   writeErrors>>

\* the record of a request, once _ensure_tasks_loaded has returned e
Request(op, text, ids, e) ==
    [NoLast EXCEPT !.op = op, !.text = text, !.ids = ids, !.entry = tasks,
                   !.pre = e.tasks, !.hydrated = e.hydrated]

\* lines 192-196, e being the outcome of _ensure_tasks_loaded
AddTaskLoaded(text, e) ==
    IF e.exc # NoExc
    THEN /\ last' = Raised(Request("create", text, <<>>, e), e.exc)
         /\ UNCHANGED <<tasks, file, createdIds, hydrations, writeErrors>>
    ELSE LET task_id == NextTaskId(e.tasks)
             new_task == [id |-> task_id, text |-> text]
             appended == Append(e.tasks, new_task)
         IN
         /\ tasks' = appended
         /\ hydrations' = IF e.hydrated THEN hydrations + 1 ELSE hydrations
         /\ \E w \in save_tasks_to_file(appended, file) :
              /\ file' = w.file
              /\ IF w.exc # NoExc
                 THEN /\ writeErrors < MaxWriteErrors
                      /\ writeErrors' = writeErrors + 1
                      /\ last' = Raised(Request("create", text, <<>>, e), w.exc)
                      /\ UNCHANGED createdIds
                 ELSE /\ last' = [Request("create", text, <<>>, e)
                                    EXCEPT !.status = "ok", !.task = new_task]
                      /\ createdIds' = Append(createdIds, task_id)
                      /\ UNCHANGED writeErrors

\* POST /tasks
add_task(text) ==
    /\ UNCHANGED <<routeVars, buildVars, concVars>>
    /\ proc = "serving"
    /\ Len(createdIds) < MaxCreates
    /\ HydrationGuard
    /\ AddTaskLoaded(text, ensure_tasks_loaded(tasks, file))
    /\ UNCHANGED <<proc, extWrites, extAfterHydration, deletes>>

\* line 203, e being the outcome of _ensure_tasks_loaded
ListTasksLoaded(e) ==
    IF e.exc # NoExc
    THEN /\ last' = Raised(Request("list", "", <<>>, e), e.exc)
         /\ UNCHANGED <<tasks, hydrations>>
    ELSE /\ tasks' = e.tasks
         /\ hydrations' = IF e.hydrated THEN hydrations + 1 ELSE hydrations
         /\ last' = [Request("list", "", <<>>, e) EXCEPT !.status = "ok", !.list = e.tasks]

\* GET /tasks
list_tasks ==
    /\ UNCHANGED <<routeVars, buildVars, concVars>>
    /\ proc = "serving"
    /\ HydrationGuard
    /\ ListTasksLoaded(ensure_tasks_loaded(tasks, file))
    /\ UNCHANGED <<file, proc, createdIds, extWrites, extAfterHydration, deletes,
                   writeErrors>>

\* the ids of a collection
IdsOf(ts) == {ts[i].id : i \in 1..Len(ts)}

\* ids a delete request may name: those of the collection the handler
\* works on, and one that no task carries
DeleteIdChoices == IdsOf(ensure_tasks_loaded(tasks, file).tasks) \cup {NoSuchId}

\* lines 210-213, e being the outcome of _ensure_tasks_loaded
DeleteTasksLoaded(body_ids, e) ==
    IF e.exc # NoExc
    THEN /\ last' = Raised(Request("delete", "", body_ids, e), e.exc)
         /\ UNCHANGED <<tasks, file, hydrations, writeErrors>>
    ELSE LET ids == IdSet(body_ids)
             kept == KeepNotIn(e.tasks, ids)
         IN
         /\ tasks' = kept
         /\ hydrations' = IF e.hydrated THEN hydrations + 1 ELSE hydrations
         /\ \E w \in save_tasks_to_file(kept, file) :
              /\ file' = w.file
              /\ IF w.exc # NoExc
                 THEN /\ writeErrors < MaxWriteErrors
                      /\ writeErrors' = writeErrors + 1
                      /\ last' = Raised(Request("delete", "", body_ids, e), w.exc)
                 ELSE /\ last' = [Request("delete", "", body_ids, e)
                                    EXCEPT !.status = "ok",
                                           !.count = DeletedCount(body_ids)]
                      /\ UNCHANGED writeErrors

\* DELETE /tasks
delete_tasks(body_ids) ==
    /\ UNCHANGED <<routeVars, buildVars, concVars>>
    /\ proc = "serving"
    /\ deletes < MaxDeletes
    /\ deletes' = deletes + 1
    /\ HydrationGuard
    /\ DeleteTasksLoaded(body_ids, ensure_tasks_loaded(tasks, file))
    /\ UNCHANGED <<proc, createdIds, extWrites, extAfterHydration>>

\* another program rewrites tasks.json
ExternalWrite(f) ==
    /\ UNCHANGED <<routeVars, buildVars, concVars>>
    /\ extWrites < MaxExtWrites
    /\ f # file
    /\ file' = f
    /\ extWrites' = extWrites + 1
    /\ extAfterHydration' = (extAfterHydration \/ hydrations >= 1)
    /\ last' = [NoLast EXCEPT !.op = "external"]
    /\ UNCHANGED <<tasks, proc, createdIds, hydrations, deletes, writeErrors>>

\* a create request with some text
CreateRequest == \E text \in Texts : add_task(text)

\* a delete request with some list of ids
DeleteRequest == \E body_ids \in SeqsUpTo(DeleteIdChoices, MaxDelLen) : delete_tasks(body_ids)

\* an external modification of the file
ExternalModification == \E f \in ExternalFiles : ExternalWrite(f)

(***************************************************************************)
(* The assistant applications: secret resolver and provider router.        *)
(* Strings are sequences of characters; None is a value of its own.        *)
(***************************************************************************)
Providers == {"anthropic", "openai", "gemini"}
SecretNames == {"ANTHROPIC_API_KEY", "OPENAI_API_KEY", "GEMINI_API_KEY"}
NoProvider == "none"

None == [none |-> TRUE, s |-> <<>>]
Str(s) == [none |-> FALSE, s |-> s]
\* Python truthiness of a str-or-None value
Truthy(v) == ~v.none /\ v.s # <<>>

\* st.secrets[name]: raises (no such key, no secrets file) or yields a value
StoreEntries == { [raises |-> TRUE, value |-> <<>>],
                  [raises |-> FALSE, value |-> <<>>],
                  [raises |-> FALSE, value |-> <<"k", "s">>] }
\* os.getenv(name): None when unset, else the value
EnvEntries == { None, Str(<<>>), Str(<<"k", "e">>) }

\* _get_secret(name)
get_secret(store, env, name) ==
    IF ~store[name].raises /\ store[name].value # <<>>
    THEN Str(store[name].value)
    ELSE env[name]

\* the selection with the first two tests in the other order
SelectProvider_OpenAIFirst(anthropic_key, openai_key, gemini_key) ==
    IF Truthy(openai_key) THEN "openai"
    ELSE IF Truthy(anthropic_key) THEN "anthropic"
    ELSE IF Truthy(gemini_key) THEN "gemini"
    ELSE NoProvider

\* lines 43-55 (planner), 40-52 (coach): the provider by key availability
SelectProvider(anthropic_key, openai_key, gemini_key) ==
    IF Truthy(anthropic_key) THEN "anthropic"
    ELSE IF Truthy(openai_key) THEN "openai"
    ELSE IF Truthy(gemini_key) THEN "gemini"
    ELSE NoProvider

\* MAX_OUTPUT_TOKENS of the planner; the literal 1200 of the coach
MaxOutputTokens(a) == IF a = "planner" THEN 4096 ELSE 1200
NotPassed == -1
\* 0.7, in tenths
Temperature == 7

\* the request each branch builds
RequestFor(a, provider, system_prompt, user_content) ==
    CASE provider = "anthropic" ->
           [provider |-> "anthropic", model |-> "claude-sonnet-4-6",
            max_tokens |-> MaxOutputTokens(a), temperature |-> Temperature,
            system |-> system_prompt, user |-> user_content]
      [] provider = "openai" ->
           [provider |-> "openai", model |-> "gpt-4.1-mini",
            max_tokens |-> MaxOutputTokens(a), temperature |-> Temperature,
            system |-> system_prompt, user |-> user_content]
      [] provider = "gemini" ->
           [provider |-> "gemini", model |-> "gemini-2.0-flash",
            max_tokens |-> IF a = "planner" THEN MaxOutputTokens(a) ELSE NotPassed,
            temperature |-> NotPassed,
            system |-> <<>>,
            user |-> system_prompt \o <<"\n", "\n">> \o user_content]

WhiteSpace == {" ", "\n", "\t"}
RECURSIVE LStrip(_), RStrip(_)
LStrip(s) == IF s # <<>> /\ s[1] \in WhiteSpace THEN LStrip(Tail(s)) ELSE s
RStrip(s) ==
    IF s # <<>> /\ s[Len(s)] \in WhiteSpace THEN RStrip(SubSeq(s, 1, Len(s) - 1)) ELSE s
\* str.strip()
Strip(s) == LStrip(RStrip(s))

RECURSIVE JoinText(_)
\* "".join of the text of the blocks whose type is "text"
JoinText(blocks) ==
    IF blocks = <<>> THEN <<>>
    ELSE (IF blocks[1].type = "text" THEN blocks[1].text ELSE <<>>)
         \o JoinText(Tail(blocks))

\* the text each branch extracts from the provider's response
ExtractText(provider, response) ==
    CASE provider = "anthropic" -> Strip(JoinText(response.content))
      [] provider = "openai" ->
           Strip(IF Truthy(response.output_text) THEN response.output_text.s ELSE <<>>)
      [] provider = "gemini" ->
           Strip(IF Truthy(response.text) THEN response.text.s ELSE <<>>)

\* what the provider does with a request: it answers, or the call raises
Response(content, output_text, text) ==
    [content |-> content, output_text |-> output_text, text |-> text]
Answers ==
    { Response(<<[type |-> "text", text |-> <<" ", "h">>],
                 [type |-> "tool_use", text |-> <<"x">>],
                 [type |-> "text", text |-> <<"i", "\n">>]>>,
               Str(<<" ", "h", "i", " ">>), Str(<<"h", "i", "\n">>)),
      Response(<<>>, None, None) }
CallOutcomes ==
    {[raises |-> FALSE, exc |-> NoExc, response |-> r] : r \in Answers}
    \cup {[raises |-> TRUE, exc |-> "APIError", response |-> Response(<<>>, None, None)]}

\* st.error messages
ConfigError == [kind |-> "no_api_key", provider |-> NoProvider]
MissingLibrary(provider) == [kind |-> "missing_library", provider |-> provider]
CallError(provider) == [kind |-> "call_failed", provider |-> provider]

\* the record of a router call: the provider selected, the string returned,
\* the messages shown, the requests sent, whether the request raised, and
\* the exception that reached the caller
RouteResult(provider, ret, errors, requests, exc) ==
    [called |-> TRUE, provider |-> provider, ret |-> ret, errors |-> errors,
     requests |-> requests, failed |-> (exc # NoExc), exc |-> exc]
NoRoute == [called |-> FALSE, provider |-> NoProvider, ret |-> <<>>, errors |-> <<>>,
            requests |-> <<>>, failed |-> FALSE, exc |-> NoExc]

\* the body of one `if provider == ...` branch inside the try block: the
\* requests it sends, the messages it shows, what it returns, and the
\* exception that leaves it
Branch(a, provider, libs, system_prompt, user_content, out) ==
    IF provider # "anthropic" /\ provider \notin libs
    THEN \* the lazy import raised ImportError, handled in the branch
         RouteResult(provider, <<>>, <<MissingLibrary(provider)>>, <<>>, NoExc)
    ELSE LET req == RequestFor(a, provider, system_prompt, user_content) IN
         IF out.raises
         THEN RouteResult(provider, <<>>, <<>>, <<req>>, out.exc)
         ELSE RouteResult(provider, ExtractText(provider, out.response), <<>>,
                          <<req>>, NoExc)

\* a variant that turns to the next provider when the selected one raised
TryBlock_Fallback(a, provider, libs, system_prompt, user_content, out) ==
    LET b == Branch(a, provider, libs, system_prompt, user_content, out)
        other == IF provider = "anthropic" THEN "openai" ELSE "gemini"
    IN
    IF b.exc # NoExc /\ Catches({"Exception"}, b.exc)
    THEN [b EXCEPT !.errors = Append(b.errors, CallError(provider)),
                   !.requests = Append(b.requests,
                                       RequestFor(a, other, system_prompt, user_content)),
                   !.exc = NoExc, !.ret = <<>>]
    ELSE b

\* the try block with its `except Exception` handler, and the final return ""
TryBlock(a, provider, libs, system_prompt, user_content, out) ==
    LET b == Branch(a, provider, libs, system_prompt, user_content, out) IN
    IF b.exc # NoExc /\ Catches({"Exception"}, b.exc)
    THEN [b EXCEPT !.errors = Append(b.errors, CallError(provider)),
                   !.exc = NoExc, !.ret = <<>>]
    ELSE b

\* call_family_activity_planner / call_pm_coach
call_model(a, store, env, libs, system_prompt, user_content, out) ==
    LET anthropic_key == get_secret(store, env, "ANTHROPIC_API_KEY")
        openai_key == get_secret(store, env, "OPENAI_API_KEY")
        gemini_key == get_secret(store, env, "GEMINI_API_KEY")
        provider == SelectProvider(anthropic_key, openai_key, gemini_key)
    IN
    IF provider = NoProvider
    THEN RouteResult(NoProvider, <<>>, <<ConfigError>>, <<>>, NoExc)
    ELSE TryBlock(a, provider, libs, system_prompt, user_content, out)

SystemPrompts == {<<"S">>}
UserMessages == {<<"u">>, <<"v">>}

RouteInit ==
    /\ app \in {"planner", "coach"}
    /\ installed \in SUBSET Providers
    /\ secrets \in [SecretNames -> StoreEntries]
    /\ environ \in [SecretNames -> EnvEntries]
    /\ appState = "init"
    /\ route = NoRoute

\* the router's variables while the task store is modelled
RouteIdle ==
    /\ app = "planner"
    /\ installed = Providers
    /\ secrets = [n \in SecretNames |-> [raises |-> TRUE, value |-> <<>>]]
    /\ environ = [n \in SecretNames |-> None]
    /\ appState = "init"
    /\ route = NoRoute

\* the task store's variables while the router is modelled
TaskIdle ==
    /\ tasks = <<>>
    /\ file = FileAbsent
    /\ proc = "init"
    /\ last = NoLast
    /\ createdIds = <<>>
    /\ hydrations = 0
    /\ extWrites = 0
    /\ extAfterHydration = FALSE
    /\ deletes = 0
    /\ writeErrors = 0

\* the application module is imported: line 5 imports the anthropic client
AppStart ==
    /\ appState = "init"
    /\ appState' = IF "anthropic" \in installed THEN "running" ELSE "crashed"
    /\ UNCHANGED <<app, installed, secrets, environ, route>>
    /\ UNCHANGED <<taskVars, buildVars, concVars>>

\* one call of the router from the presentation shell
RouteCall ==
    /\ appState = "running"
    /\ \E system_prompt \in SystemPrompts, user_content \in UserMessages,
          out \in CallOutcomes :
         route' = call_model(app, secrets, environ, installed,
                             system_prompt, user_content, out)
    /\ UNCHANGED <<app, installed, secrets, environ, appState>>
    /\ UNCHANGED <<taskVars, buildVars, concVars>>

(***************************************************************************)
(* The prompt builders.                                                    *)
(* A text is a sequence of pieces: a piece is one character of a field     *)
(* value, one white-space character, or a run of fixed template text.      *)
(***************************************************************************)
MaxKids == 2         \* most children entered in the planner's form

Digit == <<"0", "1", "2", "3", "4", "5", "6", "7", "8", "9">>
\* str(n) of a number below 100
Digits(n) == IF n < 10 THEN <<Digit[n + 1]>> ELSE <<Digit[(n \div 10) + 1], Digit[(n % 10) + 1]>>

RECURSIVE RStripChars(_, _)
\* str.rstrip(chars)
RStripChars(s, chars) ==
    IF s # <<>> /\ s[Len(s)] \in chars
    THEN RStripChars(SubSeq(s, 1, Len(s) - 1), chars)
    ELSE s

\* f"{age:.1f}" of an age given in halves of a year
FormatOneDecimal(halves) ==
    Digits(halves \div 2) \o <<".", IF halves % 2 = 1 THEN "5" ELSE "0">>

\* planner line 150: f"{age:.1f}".rstrip("0").rstrip(".")
age_str(halves) == RStripChars(RStripChars(FormatOneDecimal(halves), {"0"}), {"."})

RECURSIVE Join(_, _)
\* sep.join(parts)
Join(parts, sep) ==
    IF parts = <<>> THEN <<>>
    ELSE IF Len(parts) = 1 THEN parts[1]
    ELSE parts[1] \o sep \o Join(Tail(parts), sep)

\* the value as given, without the default
OrDefault_AsGiven(value, default) == IF value.none THEN <<>> ELSE value.s

\* `value or default` of a str-or-None value with a str default
OrDefault(value, default) == IF Truthy(value) THEN value.s ELSE default

\* lines 148-151: one part per child
ChildParts(child_ages) ==
    [idx \in 1..Len(child_ages) |->
        <<"Child", " ">> \o Digits(idx) \o <<":", " ">> \o age_str(child_ages[idx])
        \o <<" ", "years.">>]

\* lines 138-157: the list `parts`
PlannerParts(f) ==
    << <<"Zip code:", " ">> \o f.zip_code \o <<".">>,
       <<"Mode:", " ">> \o f.mode \o <<".">>,
       IF f.kids_scope = "All kids together"
       THEN <<"Kids: All together.">>
       ELSE <<"Kids: Specific child (">>
            \o OrDefault(f.specific_child_label, <<"Child 1">>) \o <<").">>,
       <<"Number of kids:", " ">> \o Digits(f.num_kids) \o <<".">> >>
    \o ChildParts(f.child_ages)
    \o << <<"Energy level:", " ">> \o f.energy_level \o <<".">>,
          <<"Location:", " ">> \o f.location_pref \o <<".">>,
          <<"Budget:", " ">> \o f.budget \o <<".">>,
          <<"Screen-free:", " ", IF f.screen_free THEN "Yes" ELSE "No", ".">>,
          <<"Suggest 5 activities.">> >>

\* build_user_message of the planner
build_user_message(f) == Join(PlannerParts(f), <<" ">>)

\* the columns the template text is indented by inside the source
TemplateIndent == 8
ClosingIndent == 4

Spaces(n) == [i \in 1..n |-> " "]

\* index of the first line break of a text that has one
FirstBreak(s) == CHOOSE i \in 1..Len(s) : s[i] = "\n" /\ \A j \in 1..(i - 1) : s[j] # "\n"

RECURSIVE SplitLines(_)
\* str.split("\n")
SplitLines(s) ==
    IF \A i \in 1..Len(s) : s[i] # "\n" THEN <<s>>
    ELSE <<SubSeq(s, 1, FirstBreak(s) - 1)>>
         \o SplitLines(SubSeq(s, FirstBreak(s) + 1, Len(s)))

RECURSIVE LeadingSpaces(_)
LeadingSpaces(line) ==
    IF line # <<>> /\ line[1] = " " THEN 1 + LeadingSpaces(Tail(line)) ELSE 0

IsBlankLine(line) == \A i \in 1..Len(line) : line[i] \in {" ", "\t"}

\* textwrap.dedent: the margin is the leading white space common to the
\* lines that are not blank
Margin(lines) ==
    LET S == {LeadingSpaces(lines[i]) : i \in {j \in 1..Len(lines) : ~IsBlankLine(lines[j])}}
    IN IF S = {} THEN 0 ELSE CHOOSE m \in S : \A k \in S : m <= k

\* textwrap.dedent: blank lines become empty, the others lose the margin
DedentLines(lines, margin) ==
    [i \in 1..Len(lines) |->
        IF IsBlankLine(lines[i]) THEN <<>>
        ELSE SubSeq(lines[i], margin + 1, Len(lines[i]))]

\* textwrap.dedent(text)
dedent(text) ==
    Join(DedentLines(SplitLines(text), Margin(SplitLines(text))), <<"\n">>)

\* one indented line of a template, with its line break
TemplateLine(content) == Spaces(TemplateIndent) \o content \o <<"\n">>

\* the f-string of a coach builder: three headed fields, each with the
\* phrase that stands for it when it is empty, and the requests
CoachTemplate(h1, v1, d1, h2, v2, d2, h3, v3, d3, asks) ==
    <<"\n">>
    \o TemplateLine(<<h1>>) \o TemplateLine(OrDefault(Str(v1), <<d1>>)) \o <<"\n">>
    \o TemplateLine(<<h2>>) \o TemplateLine(OrDefault(Str(v2), <<d2>>)) \o <<"\n">>
    \o TemplateLine(<<h3>>) \o TemplateLine(OrDefault(Str(v3), <<d3>>)) \o <<"\n">>
    \o TemplateLine(<<"Please:">>)
    \o TemplateLine(<<asks[1]>>) \o TemplateLine(<<asks[2]>>)
    \o TemplateLine(<<asks[3]>>) \o TemplateLine(<<asks[4]>>)
    \o Spaces(ClosingIndent)

BASE_SYSTEM_PROMPT == <<"BASE_SYSTEM_PROMPT">>

NoBackground == "[User did not provide background details]"
NoTargetRole == "[User did not specify a target role or company]"
NoQuestions == "[User did not specify particular questions]"
NoTimeline == "[User did not specify a target role or timeline]"
NoSkills == "[User did not list current skills or experiences]"
NoCompanies == "[User did not specify target companies or industries]"
NoNarrative == "[User did not provide a current narrative]"

\* what a coach builder returns
PromptPair(system_prompt, user_content) ==
    [system |-> system_prompt, user |-> user_content]

build_interview_prep_prompt(background, target_role, questions) ==
    PromptPair(
        BASE_SYSTEM_PROMPT
        \o <<"\n", "\n", "You are currently helping the user with **PM interview preparation**.">>,
        Strip(dedent(CoachTemplate(
            "Context about my background:", background, NoBackground,
            "Target role / company / level:", target_role, NoTargetRole,
            "Interview prep questions or areas I want help with:", questions, NoQuestions,
            <<"- Identify core themes I should lean on in PM interviews.",
              "- Suggest structured answers for my key stories.",
              "- Propose likely PM interview questions.",
              "- Give bullet-point guidance on how to improve my delivery.">>))))

build_gap_analysis_prompt(background, target_role, current_skills) ==
    PromptPair(
        BASE_SYSTEM_PROMPT
        \o <<"\n", "\n", "You are currently helping the user with a **PM skill and experience gap analysis**.">>,
        Strip(dedent(CoachTemplate(
            "Current background and experience:", background, NoBackground,
            "Target PM role(s), level, and timeline:", target_role, NoTimeline,
            "Current PM-relevant skills, projects, or experiences:", current_skills, NoSkills,
            <<"- Map my current profile against expectations for my target PM roles.",
              "- Identify concrete skill, experience, and signaling gaps.",
              "- Propose a development plan.",
              "- Recommend how to demonstrate progress clearly.">>))))

build_career_positioning_prompt(background, target_companies, narrative) ==
    PromptPair(
        BASE_SYSTEM_PROMPT
        \o <<"\n", "\n", "You are currently helping the user with **PM career positioning and narrative**.">>,
        Strip(dedent(CoachTemplate(
            "My background (education, past roles, domains, key skills):", background, NoBackground,
            "Target companies / industries / product areas:", target_companies, NoCompanies,
            "My current career story or positioning (if any):", narrative, NoNarrative,
            <<"- Craft concise PM positioning statements.",
              "- Propose a clear career narrative.",
              "- Suggest how to tailor this narrative for different types of companies.",
              "- Provide concrete lines I can reuse.">>))))

FAMILY_PLANNER_SYSTEM_PROMPT == <<"FAMILY_PLANNER_SYSTEM_PROMPT">>

\* what the user typed into a text field: nothing, a space, a word, two lines
FieldTexts == { <<>>, <<" ">>, <<"x">>, <<"x", "\n", "y">> }
ZipCodes == { <<>>, <<" ">>, <<"9", "5">>, <<" ", "9", "5">> }
\* ages in halves of a year: 3.5, 8.0 and 10.0
Ages == {7, 16, 20}
Modes == { <<"Weekend">>, <<"Weekday Evening">> }
EnergyLevels == { <<"Medium">>, <<"High (burn some energy)">> }
ChildLabels(n) == { Str(<<"Child", " ">> \o Digits(i)) : i \in 1..n }

NoForm ==
    [app |-> "none", tab |-> "none",
     zip_code |-> <<>>, mode |-> <<>>, num_kids |-> 0, child_ages |-> <<>>,
     kids_scope |-> "", specific_child_label |-> None, energy_level |-> <<>>,
     location_pref |-> <<>>, budget |-> <<>>, screen_free |-> FALSE,
     background |-> <<>>, target |-> <<>>, detail |-> <<>>]

\* the planner's sidebar (lines 166-222) with the arguments of
\* build_user_message: a label may be missing when one child is meant
PlannerForms ==
    { [NoForm EXCEPT !.app = "planner", !.zip_code = z, !.mode = m,
                     !.num_kids = Len(ages), !.child_ages = ages,
                     !.kids_scope = sc[1], !.specific_child_label = sc[2],
                     !.energy_level = e, !.location_pref = <<"Either">>,
                     !.budget = <<"Free">>, !.screen_free = sf] :
        z \in ZipCodes, m \in Modes, e \in EnergyLevels, sf \in BOOLEAN,
        ages \in SeqsUpTo(Ages, MaxKids) \ {<<>>},
        sc \in ({<<"All kids together", None>>}
                \cup ({"Specific child"} \X ({None} \cup ChildLabels(MaxKids)))) }

\* the three text areas of one tab of the coach
CoachForms ==
    { [NoForm EXCEPT !.app = "coach", !.tab = t, !.background = b,
                     !.target = g, !.detail = d] :
        t \in {"interview", "gap", "positioning"},
        b \in FieldTexts, g \in FieldTexts, d \in FieldTexts }

\* the record of a build: the builder, whether a prompt was built, the
\* prompt pair, and the messages shown instead
Built(builder, system_prompt, user_content) ==
    [builder |-> builder, built |-> TRUE, system |-> system_prompt,
     user |-> user_content, errors |-> <<>>]
NoPrompt == [builder |-> "none", built |-> FALSE, system |-> <<>>, user |-> <<>>,
             errors |-> <<>>]

\* the builders' variables while another component is modelled
BuildIdle ==
    /\ form = NoForm
    /\ prompt = NoPrompt

BuildInit ==
    /\ form \in PlannerForms \cup CoachForms
    /\ prompt = NoPrompt

\* build_user_message applied to the fields as they are
BuildUserMessage ==
    /\ form.app = "planner"
    /\ prompt' = Built("build_user_message", <<>>, build_user_message(form))
    /\ UNCHANGED <<form, taskVars, routeVars, concVars>>

\* planner lines 224-240: the button "Plan activities"
PlanActivities ==
    /\ form.app = "planner"
    /\ prompt' = IF Strip(form.zip_code) = <<>>
                 THEN [NoPrompt EXCEPT !.builder = "main",
                                       !.errors = <<"Please enter a zip code.">>]
                 ELSE Built("main", FAMILY_PLANNER_SYSTEM_PROMPT,
                            build_user_message(
                                [form EXCEPT !.zip_code = Strip(form.zip_code)]))
    /\ UNCHANGED <<form, taskVars, routeVars, concVars>>

\* the prompt pair of a coach builder, recorded
BuiltPair(builder, pair) == Built(builder, pair.system, pair.user)

\* coach line 256
BuildInterviewPrep ==
    /\ form.app = "coach" /\ form.tab = "interview"
    /\ prompt' = BuiltPair("build_interview_prep_prompt",
                     build_interview_prep_prompt(form.background, form.target, form.detail))
    /\ UNCHANGED <<form, taskVars, routeVars, concVars>>

\* coach line 291
BuildGapAnalysis ==
    /\ form.app = "coach" /\ form.tab = "gap"
    /\ prompt' = BuiltPair("build_gap_analysis_prompt",
                     build_gap_analysis_prompt(form.background, form.target, form.detail))
    /\ UNCHANGED <<form, taskVars, routeVars, concVars>>

\* coach line 325
BuildCareerPositioning ==
    /\ form.app = "coach" /\ form.tab = "positioning"
    /\ prompt' = BuiltPair("build_career_positioning_prompt",
                     build_career_positioning_prompt(form.background, form.target, form.detail))
    /\ UNCHANGED <<form, taskVars, routeVars, concVars>>

(***************************************************************************)
(* Concurrent requests of the task store.                                  *)
(* FastAPI runs the plain `def` handlers in a thread pool; nothing in       *)
(* main.py locks the list or the file, so the statements of two handlers   *)
(* interleave.  One step is one read or one write of the shared list or    *)
(* of the file.                                                            *)
(***************************************************************************)
Threads == {1, 2}

NoThread == [op |-> "none", pc |-> "idle", text |-> "", ids |-> <<>>,
             overlap |-> FALSE, loaded |-> <<>>, task_id |-> 0, kept |-> <<>>,
             dumped |-> <<>>, ret |-> NoTask]

\* no concurrent request is in flight
ConcIdle == threads = <<>>

InFlight(t) == threads[t].pc \notin {"idle", "done"}

\* the cache and the file when the requests arrive: a fresh process, or
\* one whose cache mirrors the file
ConcStores ==
    {[tasks |-> <<>>, file |-> FileAbsent]}
    \cup {[tasks |-> <<>>, file |-> FileHolding(c)] : c \in StoredCollections}
    \cup {[tasks |-> c, file |-> FileHolding(c)] : c \in StoredCollections}

ConcDeleteIds == {<<1>>, <<2>>, <<1, 2>>}

ConcInit ==
    /\ \E st \in ConcStores : tasks = st.tasks /\ file = st.file
    /\ proc = "serving"
    /\ last = NoLast
    /\ createdIds = <<>>
    /\ hydrations = 0
    /\ extWrites = 0
    /\ extAfterHydration = FALSE
    /\ deletes = 0
    /\ writeErrors = 0
    /\ threads = [t \in Threads |-> NoThread]

\* what a thread's step leaves alone besides the list and the file
ConcFrame ==
    UNCHANGED <<proc, last, createdIds, hydrations, extWrites, extAfterHydration,
                deletes, writeErrors, routeVars, buildVars>>

\* a request reaches its handler on a free thread
Arrive(t, op, text, ids) ==
    /\ threads' = [threads EXCEPT ![t] =
                     [NoThread EXCEPT !.op = op, !.pc = "ensure", !.text = text,
                                      !.ids = ids,
                                      !.overlap = \E u \in Threads \ {t} : InFlight(u)]]
    /\ UNCHANGED <<tasks, file>>
    /\ ConcFrame

\* POST /tasks arrives
ArriveCreate ==
    \E t \in Threads, text \in Texts :
        /\ threads[t].pc = "idle"
        /\ Arrive(t, "create", text, <<>>)

\* DELETE /tasks arrives
ArriveDelete ==
    \E t \in Threads, ids \in ConcDeleteIds :
        /\ threads[t].pc = "idle"
        /\ Arrive(t, "delete", "", ids)

\* the statement after _ensure_tasks_loaded()
AfterEnsure(t) == IF threads[t].op = "create" THEN "read_id" ELSE "filter"

\* lines 164-166, right-hand side: the test and load_tasks_from_file()
EnsureLoad(t, r) ==
    threads' = [threads EXCEPT ![t] =
                  IF r.exc # NoExc THEN [@ EXCEPT !.pc = "done"]
                  ELSE [@ EXCEPT !.pc = "assign_loaded", !.loaded = r.val]]

EnsureTest ==
    \E t \in Threads :
        /\ threads[t].pc = "ensure"
        /\ IF tasks = <<>> /\ file.exists
           THEN EnsureLoad(t, load_tasks_from_file(file))
           ELSE threads' = [threads EXCEPT ![t].pc = AfterEnsure(t)]
        /\ UNCHANGED <<tasks, file>>
        /\ ConcFrame

\* line 166: the global is bound to what was loaded
EnsureAssign ==
    \E t \in Threads :
        /\ threads[t].pc = "assign_loaded"
        /\ tasks' = threads[t].loaded
        /\ threads' = [threads EXCEPT ![t].pc = AfterEnsure(t)]
        /\ UNCHANGED file
        /\ ConcFrame

\* lines 192-193: the id is computed from the list as it is now
ReadId ==
    \E t \in Threads :
        /\ threads[t].pc = "read_id"
        /\ threads' = [threads EXCEPT ![t].pc = "append",
                                      ![t].task_id = NextTaskId(tasks)]
        /\ UNCHANGED <<tasks, file>>
        /\ ConcFrame

\* line 194: tasks.append(new_task)
AppendTask ==
    \E t \in Threads :
        /\ threads[t].pc = "append"
        /\ tasks' = Append(tasks, [id |-> threads[t].task_id, text |-> threads[t].text])
        /\ threads' = [threads EXCEPT ![t].pc = "dumps"]
        /\ UNCHANGED file
        /\ ConcFrame

\* lines 210-211, right-hand side: the list comprehension
FilterTasks ==
    \E t \in Threads :
        /\ threads[t].pc = "filter"
        /\ threads' = [threads EXCEPT ![t].pc = "assign",
                                      ![t].kept = KeepNotIn(tasks, IdSet(threads[t].ids))]
        /\ UNCHANGED <<tasks, file>>
        /\ ConcFrame

\* line 211: tasks[:] = ...
AssignKept ==
    \E t \in Threads :
        /\ threads[t].pc = "assign"
        /\ tasks' = threads[t].kept
        /\ threads' = [threads EXCEPT ![t].pc = "dumps"]
        /\ UNCHANGED file
        /\ ConcFrame

\* line 159, argument: json.dumps(tasks, indent=2)
DumpTasks ==
    \E t \in Threads :
        /\ threads[t].pc = "dumps"
        /\ threads' = [threads EXCEPT ![t].pc = "write",
                                      ![t].dumped = json_dumps(tasks)]
        /\ UNCHANGED <<tasks, file>>
        /\ ConcFrame

\* line 159: write_text, then the handler returns (line 196 or 213)
WriteAndReturn ==
    \E t \in Threads :
        /\ threads[t].pc = "write"
        /\ file' = FileOf(TRUE, IF file.exists THEN file.readable ELSE TRUE, TRUE,
                          threads[t].dumped)
        /\ threads' = [threads EXCEPT
                         ![t].pc = "done",
                         ![t].ret = IF threads[t].op = "create"
                                    THEN [id |-> threads[t].task_id,
                                          text |-> threads[t].text]
                                    ELSE NoTask]
        /\ UNCHANGED tasks
        /\ ConcFrame

(***************************************************************************)
(* Specifications.                                                         *)
(***************************************************************************)
Init == TaskInit /\ RouteIdle /\ BuildIdle /\ ConcIdle
Next ==
    \/ Serve
    \/ Main
    \/ CreateRequest
    \/ list_tasks
    \/ DeleteRequest
    \/ ExternalModification
Spec == Init /\ [][Next]_vars

InitRoute == RouteInit /\ TaskIdle /\ BuildIdle /\ ConcIdle
NextRoute ==
    \/ AppStart
    \/ RouteCall
SpecRoute == InitRoute /\ [][NextRoute]_vars

InitBuild == BuildInit /\ TaskIdle /\ RouteIdle /\ ConcIdle
NextBuild ==
    \/ BuildUserMessage
    \/ PlanActivities
    \/ BuildInterviewPrep
    \/ BuildGapAnalysis
    \/ BuildCareerPositioning
SpecBuild == InitBuild /\ [][NextBuild]_vars

InitConc == ConcInit /\ RouteIdle /\ BuildIdle
NextConc ==
    \/ ArriveCreate
    \/ ArriveDelete
    \/ EnsureTest
    \/ EnsureAssign
    \/ ReadId
    \/ AppendTask
    \/ FilterTasks
    \/ AssignKept
    \/ DumpTasks
    \/ WriteAndReturn
SpecConc == InitConc /\ [][NextConc]_vars

(***************************************************************************)
(* Properties of the task store, checked under Spec.                       *)
(***************************************************************************)
MaxOfSet(S) == CHOOSE m \in S : \A k \in S : k <= m
Completed(op) == last.op = op /\ last.status = "ok"

\* C1: create never reuses an id: the ids returned by all the create calls
\* of one process lifetime are pairwise distinct.
C1_CreateNeverReusesId ==
    \A i, j \in 1..Len(createdIds) : i # j => createdIds[i] # createdIds[j]

\* C2: no two tasks of the in-memory collection have the same id, after any
\* sequence of create, list and delete requests.
C2_IdsUnique ==
    \A i, j \in 1..Len(tasks) : i # j => tasks[i].id # tasks[j].id

C2_Witness ==
    /\ Len(tasks) >= 2
    /\ Len(createdIds) >= 1
    /\ deletes >= 1

\* C3: a completed create assigns max(ids of the collection) + 1, or 1 when
\* the collection is empty, appends the record {id, text} at the end, leaves
\* the existing records as they were and returns exactly that record.
C3_CreateAssignsMaxPlusOne ==
    Completed("create") =>
        /\ last.task.id = (IF last.pre = <<>> THEN 1 ELSE MaxOfSet(IdsOf(last.pre)) + 1)
        /\ last.task.text = last.text
        /\ Len(tasks) = Len(last.pre) + 1
        /\ tasks[Len(tasks)] = last.task
        /\ \A i \in 1..Len(last.pre) : tasks[i] = last.pre[i]
        /\ (last.entry # <<>> => last.pre = last.entry)

\* the collection held ids 1 and 3 and the new task got id 4
C3_Witness ==
    /\ Completed("create")
    /\ Len(last.pre) = 2
    /\ last.pre[1].id = 1
    /\ last.pre[2].id = 3
    /\ last.task.id = 4

\* C4: a completed delete removes exactly the tasks whose id is requested,
\* keeps the others unchanged and in order, and returns the number of
\* distinct ids requested, whether or not they matched a task.
C4_DeleteRemovesRequested ==
    Completed("delete") =>
        LET S == {last.ids[i] : i \in 1..Len(last.ids)}
            Kept(t) == t.id \notin S
        IN /\ tasks = SelectSeq(last.pre, Kept)
           /\ last.count = Cardinality(S)

\* ids {x, 99} requested when only x exists: one task removed, 2 reported
C4_Witness ==
    /\ Completed("delete")
    /\ Len(last.ids) = 2
    /\ last.ids[2] = NoSuchId
    /\ last.ids[1] \in IdsOf(last.pre)
    /\ Len(tasks) = Len(last.pre) - 1
    /\ last.count = 2

\* C5: hydration is one-shot: the cache is replaced by the file's contents
\* at most once per process lifetime, and no request reloads the cache
\* after the file was modified externally following the first hydration.
C5_HydrationOneShot ==
    /\ hydrations <= 1
    /\ ~(last.hydrated /\ extAfterHydration)

\* the file holds a JSON array that load can read
IsArray(p) == p.ok /\ p.val.ty = "arr"
HoldsArray(f) ==
    /\ f.exists /\ f.readable /\ f.utf8
    /\ IsArray(json_loads(f.text))

\* C6: load never raises: list() completes for every state of the file, and
\* returns [] when the cache is empty and the file is corrupt or not an array.
C6_LoadNeverRaises ==
    last.op = "list" =>
        /\ last.status = "ok"
        /\ (last.entry = <<>> /\ ~HoldsArray(file) => last.list = <<>>)

\* the parsed text is an array of exactly these task records, in this order
HoldsExactly(p, ts) ==
    /\ p.ok
    /\ p.val.ty = "arr"
    /\ Len(p.val.items) = Len(ts)
    /\ \A i \in 1..Len(ts) :
         /\ p.val.items[i].ty = "obj"
         /\ Member(p.val.items[i].items, "id", JNum(0)) = JNum(ts[i].id)
         /\ Member(p.val.items[i].items, "text", JStr("")) = JStr(ts[i].text)

\* C7: after every create or delete that completes, the file contains
\* exactly the current in-memory collection, in the same order; create on an
\* empty store leaves exactly the one new record in the file.
C7_FileMirrorsCollection ==
    (Completed("create") \/ Completed("delete")) =>
        /\ file.exists /\ file.utf8
        /\ HoldsExactly(json_loads(file.text), tasks)
        /\ (Completed("create") /\ last.pre = <<>> =>
              file.text = <<Tok("["), Tok("{"), TokStr("id"), Tok(":"), TokNum(1),
                            Tok(","), TokStr("text"), Tok(":"), TokStr(last.text),
                            Tok("}"), Tok("]")>>)

\* create on an empty store completed
C7_Witness ==
    /\ Completed("create")
    /\ last.pre = <<>>
    /\ Len(tasks) = 1

(***************************************************************************)
(* Properties of the provider router, checked under SpecRoute.             *)
(***************************************************************************)
\* the credential of a provider resolved to a non-empty value
HasKey(name) == Truthy(get_secret(secrets, environ, name))
KeyA == HasKey("ANTHROPIC_API_KEY")
KeyB == HasKey("OPENAI_API_KEY")
KeyC == HasKey("GEMINI_API_KEY")

\* C8: for each combination of the three credentials, the router selects
\* the first provider in the order Anthropic > OpenAI > Gemini whose secret
\* is non-empty; when none is, it shows the configuration error, sends no
\* request and returns the empty string.
C8_ProviderSelection ==
    route.called =>
        /\ (KeyA => route.provider = "anthropic")
        /\ (~KeyA /\ KeyB => route.provider = "openai")
        /\ (~KeyA /\ ~KeyB /\ KeyC => route.provider = "gemini")
        /\ (~KeyA /\ ~KeyB /\ ~KeyC =>
              /\ route.provider = NoProvider
              /\ route.errors = <<ConfigError>>
              /\ route.requests = <<>>
              /\ route.ret = <<>>)
        /\ \A i \in 1..Len(route.requests) : route.requests[i].provider = route.provider

\* OpenAI and Gemini credentials set, Anthropic's not: OpenAI is called
C8_Witness ==
    /\ route.called
    /\ ~KeyA /\ KeyB /\ KeyC
    /\ route.provider = "openai"
    /\ Len(route.requests) = 1

\* C9: every failure of the router is non-fatal: for each provider when
\* selected, a missing client library of that provider, or an error during
\* the request, gives a shown message and an empty result, never an
\* exception at the caller nor an application that cannot run.
C9_FailuresNonFatal ==
    /\ \A p \in Providers :
         (/\ appState # "init"
          /\ installed = Providers \ {p}
          /\ p = (IF KeyA THEN "anthropic" ELSE IF KeyB THEN "openai"
                  ELSE IF KeyC THEN "gemini" ELSE NoProvider))
         => /\ appState = "running"
            /\ (route.called =>
                  route.ret = <<>> /\ route.errors # <<>> /\ route.exc = NoExc)
    /\ (route.called /\ route.failed =>
          route.ret = <<>> /\ route.errors # <<>> /\ route.exc = NoExc)

\* C10: no retry and no fallback: a router call sends at most one request,
\* only to the provider selected by priority; when the request fails the
\* call returns the empty string with an error message naming that
\* provider, and no other provider is contacted.
C10_NoRetryNoFallback ==
    route.called =>
        LET selected == IF KeyA THEN "anthropic" ELSE IF KeyB THEN "openai"
                        ELSE IF KeyC THEN "gemini" ELSE NoProvider
        IN /\ Len(route.requests) <= 1
           /\ \A i \in 1..Len(route.requests) : route.requests[i].provider = selected
           /\ (route.failed =>
                 /\ route.ret = <<>>
                 /\ route.errors = <<CallError(selected)>>
                 /\ Len(route.requests) = 1)

\* the request to Anthropic failed while OpenAI's credential was set too
C10_Witness ==
    /\ route.called
    /\ route.failed
    /\ KeyA /\ KeyB
    /\ Len(route.requests) = 1
    /\ route.requests[1].provider = "anthropic"
    /\ route.ret = <<>>

\* the request carries the system prompt sp and the user message uc, as
\* separate fields or inside one text
CarriesPrompts(r, sp, uc) ==
    \/ r.system = sp /\ r.user = uc
    \/ r.user = sp \o <<"\n", "\n">> \o uc

\* C11: whichever provider is selected, the dispatched request carries the
\* application's fixed maximum output size (4096 for the planner, 1200 for
\* the coach) and the sampling temperature 0.7, together with the system
\* prompt and the user message.
C11_RequestParameters ==
    \A i \in 1..Len(route.requests) :
        /\ route.requests[i].max_tokens = (IF app = "planner" THEN 4096 ELSE 1200)
        /\ route.requests[i].temperature = 7
        /\ \E sp \in SystemPrompts, uc \in UserMessages :
             CarriesPrompts(route.requests[i], sp, uc)

\* the value of the secret store for a name, when the lookup succeeds with
\* a non-empty value
StoreHas(name) == ~secrets[name].raises /\ secrets[name].value # <<>>
\* the process environment has a non-empty value for a name
EnvHas(name) == ~environ[name].none /\ environ[name].s # <<>>

\* C12: once the router has resolved its keys, the resolved value of every
\* name is the secret-store value when that is non-empty, else the
\* environment value when that is non-empty, else None and never the empty
\* string.
C12_ResolveFirstNonEmpty ==
    route.called =>
        \A name \in SecretNames :
            /\ StoreHas(name) =>
                 get_secret(secrets, environ, name) = Str(secrets[name].value)
            /\ (~StoreHas(name) /\ EnvHas(name)) =>
                 get_secret(secrets, environ, name) = environ[name]
            /\ (~StoreHas(name) /\ ~EnvHas(name)) =>
                 get_secret(secrets, environ, name) = None

\* the last request was a create or a delete whose storage write failed
WriteFailed(l) == l.op \in {"create", "delete"} /\ l.status = "raised" /\ l.exc = "OSError"

\* C15: a storage write failure during create or delete reaches the caller
\* as an unhandled failure and the in-memory mutation stays: the cache holds
\* the appended task (or lacks the deleted ones) while the file was not
\* rewritten with it, and a list call that follows in the same process
\* returns that unpersisted collection.
C15_WriteFailureKeepsMutation ==
    [][ /\ (writeErrors' = writeErrors + 1) =>
             /\ WriteFailed(last')
             /\ last'.op = "create" =>
                  tasks' = Append(last'.pre, [id |-> MaxIdOf(last'.pre) + 1,
                                              text |-> last'.text])
             /\ last'.op = "delete" =>
                  tasks' = SelectSeq(last'.pre,
                                     LAMBDA t : \A i \in 1..Len(last'.ids) :
                                                    t.id # last'.ids[i])
             /\ (file' = file \/ (file'.exists /\ file'.text = <<>>))
        /\ (WriteFailed(last) /\ last'.op = "list") =>
             /\ last'.status = "ok"
             /\ last'.list = tasks
      ]_vars

(***************************************************************************)
(* Properties of the prompt builders, checked under SpecBuild.             *)
(***************************************************************************)
\* the fields of a coach tab in template order, each with its heading and
\* the phrase designated for it
CoachSlots ==
    [interview |->
        << [value |-> form.background, heading |-> "Context about my background:",
            phrase |-> "[User did not provide background details]"],
           [value |-> form.target, heading |-> "Target role / company / level:",
            phrase |-> "[User did not specify a target role or company]"],
           [value |-> form.detail,
            heading |-> "Interview prep questions or areas I want help with:",
            phrase |-> "[User did not specify particular questions]"] >>,
     gap |->
        << [value |-> form.background, heading |-> "Current background and experience:",
            phrase |-> "[User did not provide background details]"],
           [value |-> form.target, heading |-> "Target PM role(s), level, and timeline:",
            phrase |-> "[User did not specify a target role or timeline]"],
           [value |-> form.detail,
            heading |-> "Current PM-relevant skills, projects, or experiences:",
            phrase |-> "[User did not list current skills or experiences]"] >>,
     positioning |->
        << [value |-> form.background,
            heading |-> "My background (education, past roles, domains, key skills):",
            phrase |-> "[User did not provide background details]"],
           [value |-> form.target,
            heading |-> "Target companies / industries / product areas:",
            phrase |-> "[User did not specify target companies or industries]"],
           [value |-> form.detail,
            heading |-> "My current career story or positioning (if any):",
            phrase |-> "[User did not provide a current narrative]"] >>]

\* where a piece of fixed text stands in a text
IndexOf(text, piece) == CHOOSE i \in 1..Len(text) : text[i] = piece
Occurs(text, piece) == \E i \in 1..Len(text) : text[i] = piece

\* the line that follows a heading, without its indentation
LineUnder(text, heading) ==
    LStrip(SplitLines(SubSeq(text, IndexOf(text, heading) + 2, Len(text)))[1])

\* an empty field of the coach is rendered as its phrase
CoachBlankAsPhrase(slot) ==
    slot.value = <<>> =>
        /\ Occurs(prompt.user, slot.heading)
        /\ LineUnder(prompt.user, slot.heading) = <<slot.phrase>>

\* the zip code build_user_message was given
ZipGiven == IF prompt.builder = "main" THEN Strip(form.zip_code) ELSE form.zip_code

BuiltBy(a) == prompt.built /\ form.app = a

DuplicateId == \E i, j \in 1..Len(tasks) : i # j /\ tasks[i].id = tasks[j].id

\* the task a completed create returned is missing from the collection
\* though no delete request named its id
LostTask(t) ==
    /\ threads[t].op = "create"
    /\ threads[t].pc = "done"
    /\ \A i \in 1..Len(tasks) : tasks[i] # threads[t].ret
    /\ \A u \in Threads :
          threads[u].op = "delete" => threads[t].ret.id \notin IdSet(threads[u].ids)

LostUpdate == \E t \in Threads : LostTask(t)

\* C14: unsynchronised requests race: a duplicate id or a lost update
\* arises only when the steps of two requests interleaved, and such a state
\* is reachable.
C14_AnomaliesOnlyByInterleaving ==
    (DuplicateId \/ LostUpdate) => \E t \in Threads : threads[t].overlap

\* two interleaved creates have both returned and carry the same id
C14_Witness ==
    /\ DuplicateId
    /\ \A t \in Threads : threads[t].op = "create" /\ threads[t].pc = "done"
    /\ threads[1].ret.id = threads[2].ret.id

====
